---------------------------- MODULE Spec2Model ----------------------------
(***************************************************************************)
(* Model of duoshe-plugin (src/plugin.py): the per-group scheduling loop   *)
(* DuoshePlugin._schedule_task, the schedule store (_load_schedule and     *)
(* _save_schedule), one execution cycle DuoshePlugin._execute_duoshe and   *)
(* the NapcatAPI client.                                                   *)
(*                                                                         *)
(* Three specifications share the definitions below.                       *)
(*   CycleSpec  one execution cycle, one remote call per step, every       *)
(*              response of the collaborators drawn from bounded sets.     *)
(*   Spec       the asyncio tasks of all groups on one event loop, the     *)
(*              clock, the schedule file and cancellation.  A cycle is     *)
(*              one step there (the coroutine _execute_duoshe has no       *)
(*              await in it), and its result is drawn from CycleOutcomes,  *)
(*              the summaries of the final states of the step relation     *)
(*              that CycleSpec runs.                                       *)
(*   GapSpec    Spec under a configuration with 0 < min <= max, with the   *)
(*              start of each group's latest cycle recorded in last_start. *)
(***************************************************************************)
EXTENDS Integers, Sequences, FiniteSets, TLC

VARIABLES
    now,              \* time.time(), in seconds
    file,             \* the content of schedule.json
    pc,               \* pc[g]: where the task of group g is
    wake,             \* wake[g]: when the pending asyncio.sleep of g elapses
    current_time,     \* local of _schedule_task (line 276)
    schedule_data,    \* local of _schedule_task (line 274)
    next_run,         \* local of _schedule_task (lines 277, 291)
    outcome,          \* outcome[g]: how the cycle of this iteration ended
    save_result,      \* save_result[g]: what the save of this cycle did
    config,           \* self.config["schedule"]: min_interval, max_interval
    last_start,       \* last_start[g]: current_time of the latest cycle of g,
                      \* a history variable over the groups a run records
    cur               \* the execution cycle in progress (CycleSpec)

schedVars == <<now, file, pc, wake, current_time,
               schedule_data, next_run, outcome, save_result, config, last_start>>
vars == <<now, file, pc, wake, current_time,
          schedule_data, next_run, outcome, save_result, config, last_start, cur>>

----------------------------------------------------------------------------
(* Bounds of the model *)

\* how many distinct users write in the message window
MaxUsers == 2
\* how many messages the message window holds at most
MaxMsgs == 3
\* how many steps of PollSeconds seconds the clock makes
MaxTicks == 5

----------------------------------------------------------------------------
(* Values *)

\* a key a dict does not hold, a value a response does not carry, Python's None
Absent == "<absent>"

\* self.bot_qq (line 209); the message query filters the bot's own messages
\* (filter_mai=True, line 333), so it is none of the Users
bot_qq == "bot"

UserName == [i \in 1..3 |-> <<"u1", "u2", "u3">>[i]]
Users == {UserName[i] : i \in 1..MaxUsers}

\* the user_id of a message; "" stands for a message without user_info or
\* with a falsy user_id (line 340)
MsgUsers == Users \cup {""}

RECURSIVE SeqsUpTo(_, _)
SeqsUpTo(S, n) ==
    IF n = 0 THEN {<<>>}
    ELSE LET shorter == SeqsUpTo(S, n - 1)
         IN  shorter \cup {Append(s, x) : s \in {t \in shorter : Len(t) = n - 1}, x \in S}

\* what message_api.get_messages_by_time_in_chat gives: it raises, or a list
MsgQueryResults ==
    {[raised |-> TRUE, msgs |-> <<>>]}
        \cup {[raised |-> FALSE, msgs |-> m] : m \in SeqsUpTo(MsgUsers, MaxMsgs)}

----------------------------------------------------------------------------
(* Python helpers *)

\* int(a / b) for b # 0: Python's int() truncates toward zero
TruncDiv(a, b) ==
    LET abs(x) == IF x < 0 THEN -x ELSE x
        q == abs(a) \div abs(b)
    IN  IF (a < 0) = (b < 0) THEN q ELSE -q

Min(a, b) == IF a <= b THEN a ELSE b

\* list[index]: 0-based, a negative index counts from the end, IndexError
\* outside -len .. len-1
ListIndex(list, index) ==
    LET n == Len(list)
    IN  IF index >= 0 /\ index < n THEN [raised |-> FALSE, value |-> list[index + 1]]
        ELSE IF index < 0 /\ index >= -n THEN [raised |-> FALSE, value |-> list[n + index + 1]]
        ELSE [raised |-> TRUE, value |-> Absent]

\* d.get(key, default) on a dict; a dict is a record whose missing keys hold Absent
DictGet(d, key, default) == IF d[key] = Absent THEN default ELSE d[key]

\* a or b on strings
PyOr(a, b) == IF a # "" THEN a ELSE b


----------------------------------------------------------------------------
(* NapcatAPI: the remote client (lines 25-132) *)

\* A member-info dict as the remote API returns it under "data"
MemberInfo(card, nickname, role) == [card |-> card, nickname |-> nickname, role |-> role]

\* the dicts the remote API answers for the target user
TargetInfos ==
    { MemberInfo("TC", "TN", "member"),
      MemberInfo("", "TN", "member"),
      MemberInfo(Absent, Absent, Absent) }

\* the dicts the remote API answers for the bot itself
BotInfos ==
    { MemberInfo("BC", "BN", r) : r \in {"admin", "owner", "member"} }
        \cup { MemberInfo("", "BN", "admin"),
               MemberInfo("BC", "BN", Absent),
               MemberInfo("", "", "admin"),
               MemberInfo(Absent, Absent, Absent) }

\* What urlopen and json.loads make of one POST (lines 38-56):
\*   network_error  HTTPError, URLError, a timeout or any other exception
\*   non_json       the body is not JSON (json.JSONDecodeError)
\*   json_other     the body is JSON but no object (a list, a string, null)
\*   json_object    the body is a JSON object with "status" and "data"
\* data.type is null (None or no "data" key), scalar (JSON that is no
\* object) or dict.
NoData == [type |-> "null", info |-> MemberInfo(Absent, Absent, Absent)]

Response(kind, status, data) == [kind |-> kind, status |-> status, data |-> data]

FailedResponses ==
    { Response("network_error", Absent, NoData),
      Response("non_json", Absent, NoData) }

\* the responses to /group_poke and /set_group_card
AckResponses ==
    FailedResponses
        \cup { Response("json_other", Absent, NoData) }
        \cup { Response("json_object", s, NoData) : s \in {"ok", "failed"} }

\* the responses to /get_group_member_info about one of `infos`; a failure
\* status may come with an empty object for data
InfoResponses(infos) ==
    FailedResponses
        \cup { Response("json_other", Absent, NoData),
               Response("json_object", "failed", NoData),
               Response("json_object", "ok", NoData),
               Response("json_object", "ok",
                        [type |-> "scalar", info |-> MemberInfo(Absent, Absent, Absent)]),
               Response("json_object", "failed",
                        [type |-> "dict", info |-> MemberInfo(Absent, Absent, Absent)]) }
        \cup { Response("json_object", "ok", [type |-> "dict", info |-> i]) : i \in infos }

\* NapcatAPI._make_request (lines 38-56): (True, result) or (False, message)
make_request(resp) ==
    [success |-> resp.kind \in {"json_other", "json_object"}, result |-> resp]

\* NapcatAPI.group_poke (lines 72-79): whatever JSON comes back is a success
group_poke(resp) ==
    LET r == make_request(resp)
    IN  [raised |-> FALSE, success |-> r.success]

\* NapcatAPI.set_group_card (lines 96-106): result.get raises AttributeError
\* when the JSON is no object
set_group_card(resp) ==
    LET r == make_request(resp)
    IN  IF ~r.success THEN [raised |-> FALSE, success |-> FALSE]
        ELSE IF r.result.kind # "json_object" THEN [raised |-> TRUE, success |-> FALSE]
        ELSE [raised |-> FALSE, success |-> r.result.status = "ok"]

get_group_member_info_nullok(resp) ==
    LET r == make_request(resp)
    IN  IF ~r.success THEN [raised |-> FALSE, success |-> FALSE, data |-> NoData]
        ELSE IF r.result.kind # "json_object"
             THEN [raised |-> TRUE, success |-> FALSE, data |-> NoData]
        ELSE IF r.result.data.type = "null"
             THEN [raised |-> FALSE, success |-> TRUE,
                   data |-> [type |-> "dict", info |-> MemberInfo(Absent, Absent, Absent)]]
        ELSE [raised |-> FALSE, success |-> TRUE, data |-> r.result.data]

\* NapcatAPI.get_group_member_info (lines 122-132): data None is a failure
get_group_member_info(resp) ==
    LET r == make_request(resp)
    IN  IF ~r.success THEN [raised |-> FALSE, success |-> FALSE, data |-> NoData]
        ELSE IF r.result.kind # "json_object"
             THEN [raised |-> TRUE, success |-> FALSE, data |-> NoData]
        ELSE IF r.result.data.type = "null"
             THEN [raised |-> FALSE, success |-> FALSE, data |-> NoData]
        ELSE [raised |-> FALSE, success |-> TRUE, data |-> r.result.data]

----------------------------------------------------------------------------
(* ActivityRanker: _execute_duoshe, Step 1 (lines 324-352) *)

\* user_message_count[user_id] (lines 338-342)
MessageCount(msgs, u) == Cardinality({i \in 1..Len(msgs) : msgs[i] = u})

\* the keys of user_message_count in the dict's order (first appearance);
\* messages without a user id are skipped (line 340)
RECURSIVE CountedUsers(_)
CountedUsers(msgs) ==
    IF msgs = <<>> THEN <<>>
    ELSE LET front == SubSeq(msgs, 1, Len(msgs) - 1)
             last == msgs[Len(msgs)]
             before == CountedUsers(front)
         IN  IF last = "" \/ \E i \in 1..Len(before) : before[i] = last
             THEN before
             ELSE Append(before, last)

\* sorted(..., key=count, reverse=True) is stable: u goes behind every user
\* that has at least as many messages
RECURSIVE InsertByCount(_, _, _)
InsertByCount(sorted, u, msgs) ==
    IF sorted = <<>> THEN <<u>>
    ELSE IF MessageCount(msgs, Head(sorted)) >= MessageCount(msgs, u)
         THEN <<Head(sorted)>> \o InsertByCount(Tail(sorted), u, msgs)
         ELSE <<u>> \o sorted

RECURSIVE SortByCount(_, _)
SortByCount(users, msgs) ==
    IF users = <<>> THEN <<>>
    ELSE InsertByCount(SortByCount(SubSeq(users, 1, Len(users) - 1), msgs),
                       users[Len(users)], msgs)

\* active_users (lines 345-348)
RankUsers(msgs) == SortByCount(CountedUsers(msgs), msgs)

----------------------------------------------------------------------------
(* CandidateSelector: _execute_duoshe, Step 2 (lines 361-387) *)

\* selection.lambda_param in tenths (line 365); the default is 1.5
LambdaParams == {15, 0, -15}

\* -log(1 - random()) of random.expovariate, in hundredths: expovariate is
\* this number divided by lambda_param
Samples == {0, 11, 69, 100, 500}

\* line 377
clamp_index(index, n) == Min(index, n - 1)

\* lines 364-383: the exponential draw, and random.choice when it raises.
\* `choice` is the position random.choice picks; index holds the local
\* `index` of line 377 when it was computed.
select_by_draw(active_users, lambda_param, sample, choice) ==
    LET n == Len(active_users)
        fallback(idx) ==
            IF n = 0
            THEN [raised |-> TRUE, target |-> Absent, index |-> idx,
                  drew |-> <<"expovariate", "choice">>]
            ELSE [raised |-> FALSE, target |-> active_users[choice], index |-> idx,
                  drew |-> <<"expovariate", "choice">>]
    IN  IF lambda_param = 0 THEN fallback(<<>>)            \* ZeroDivisionError
        ELSE LET index == clamp_index(TruncDiv(sample * n, 10 * lambda_param), n)
                 got == ListIndex(active_users, index)
             IN  IF got.raised THEN fallback(<<index>>)    \* IndexError
                 ELSE [raised |-> FALSE, target |-> got.value, index |-> <<index>>,
                       drew |-> <<"expovariate">>]

select_target_always_draws(active_users, lambda_param, sample, choice) ==
    select_by_draw(active_users, lambda_param, sample, choice)

\* lines 361-383
select_target(active_users, lambda_param, sample, choice) ==
    IF Len(active_users) = 1
    THEN [raised |-> FALSE, target |-> active_users[1], index |-> <<>>, drew |-> <<>>]
    ELSE select_by_draw(active_users, lambda_param, sample, choice)

----------------------------------------------------------------------------
(* One execution cycle: DuoshePlugin._execute_duoshe (lines 310-459) *)

\* pc of a cycle: get_stream (318), rank (324), select (361), poke (396),
\* fetch_target (403), fetch_bot (412), set_bot (423), set_target (430),
\* then returned (the coroutine returned) or raised (an exception left it).
\* ended tells how it ended:
\*   escaped              an exception left _execute_duoshe (lines 318-320)
\*   no_candidates        line 356
\*   no_target            line 387
\*   fetch_target_failed  line 406
\*   fetch_bot_failed     line 415
\*   aborted              the except of lines 458-459 caught an exception
\*   not_admin            line 456
\*   no_card_candidates   line 454
\*   completed            the target's card was set or its call failed (449-452)
\* drew lists the functions of `random` the selection called, index is the
\* local `index` (empty while it has no value), log is the sequence of
\* remote calls issued so far.
NoCycle ==
    [pc |-> "idle", ended |-> Absent, query_failed |-> FALSE, active_users |-> <<>>,
     target_user_id |-> Absent, index |-> <<>>, drew |-> <<>>, target_card |-> Absent,
     bot_card |-> Absent, bot_role |-> Absent, log |-> <<>>]

StartCycle == [NoCycle EXCEPT !.pc = "get_stream"]

Return(c, how) == [c EXCEPT !.pc = "returned", !.ended = how]

\* one remote call: where in _execute_duoshe it is made, the NapcatAPI
\* function, its user_id and card arguments, the response and what the
\* function made of it
Call(site, op, user, card, resp, res) ==
    [site |-> site, op |-> op, user |-> user, card |-> card, resp |-> resp,
     raised |-> res.raised, success |-> res.success]

call_user_bot_for_target(site, target_user_id) ==
    IF site \in {"fetch_bot", "set_bot", "set_target"} THEN bot_qq ELSE target_user_id

\* the user_id argument of each call (lines 396, 403, 412, 423, 448)
call_user(site, target_user_id) ==
    IF site \in {"fetch_bot", "set_bot"} THEN bot_qq ELSE target_user_id

\* lines 317-320: chat_api.get_stream_by_group_id is outside the try of line 322
GetStreamStep(c) ==
    { [c EXCEPT !.pc = "raised", !.ended = "escaped"],
      [c EXCEPT !.pc = "rank"] }

no_candidates_never(active_users) == FALSE

\* line 354
no_candidates(active_users) == active_users = <<>>

\* lines 324-358
RankStep(c) ==
    { LET active == IF q.raised THEN <<>> ELSE RankUsers(q.msgs)
          d == [c EXCEPT !.query_failed = q.raised, !.active_users = active]
      IN  IF no_candidates(active) THEN Return(d, "no_candidates")
          ELSE [d EXCEPT !.pc = "select"]
      : q \in MsgQueryResults }

\* lines 361-393
SelectStep(c) ==
    { LET r == select_target(c.active_users, x[1], x[2], x[3])
          d == [c EXCEPT !.drew = r.drew, !.index = r.index, !.target_user_id = r.target]
      IN  IF r.raised THEN Return(d, "aborted")
          ELSE IF r.target = "" THEN Return(d, "no_target")
          ELSE [d EXCEPT !.pc = "poke"]
      : x \in LambdaParams \X Samples
                \X (IF c.active_users = <<>> THEN {1} ELSE 1..Len(c.active_users)) }

PokeStep_stops_on_failure(c) ==
    { LET r == group_poke(resp)
          d == [c EXCEPT !.log = Append(@, Call("poke", "group_poke",
                                               call_user("poke", c.target_user_id),
                                               Absent, resp, r))]
      IN  IF r.success THEN [d EXCEPT !.pc = "fetch_target"] ELSE Return(d, "aborted")
      : resp \in AckResponses }

\* lines 396-400
PokeStep(c) ==
    { [c EXCEPT !.pc = "fetch_target",
                !.log = Append(@, Call("poke", "group_poke",
                                       call_user("poke", c.target_user_id),
                                       Absent, resp, group_poke(resp)))]
      : resp \in AckResponses }

\* lines 403-409 and 412-420: target_info.get raises AttributeError when
\* data is no dict
FetchStep(c, site, infos, failed, next) ==
    { LET r == get_group_member_info(resp)
          d == [c EXCEPT !.log = Append(@, Call(site, "get_group_member_info",
                                               call_user(site, c.target_user_id),
                                               Absent, resp, r))]
          card == PyOr(DictGet(r.data.info, "card", ""),
                       DictGet(r.data.info, "nickname", ""))
      IN  IF r.raised THEN Return(d, "aborted")
          ELSE IF ~r.success THEN Return(d, failed)
          ELSE IF r.data.type # "dict" THEN Return(d, "aborted")
          ELSE IF site = "fetch_target"
               THEN [d EXCEPT !.pc = next, !.target_card = card]
               ELSE [d EXCEPT !.pc = next, !.bot_card = card,
                              !.bot_role = DictGet(r.data.info, "role", "member")]
      : resp \in InfoResponses(infos) }

FetchTargetStep_skips_bot(c) ==
    FetchStep(c, "fetch_target", TargetInfos, "fetch_target_failed", "set_bot")

FetchTargetStep(c) ==
    FetchStep(c, "fetch_target", TargetInfos, "fetch_target_failed", "fetch_bot")

FetchBotStep(c) ==
    FetchStep(c, "fetch_bot", BotInfos, "fetch_bot_failed", "set_bot")

\* lines 423-427
SetBotStep(c) ==
    { LET r == set_group_card(resp)
          d == [c EXCEPT !.log = Append(@, Call("set_bot", "set_group_card",
                                               call_user("set_bot", c.target_user_id),
                                               c.target_card, resp, r))]
      IN  IF r.raised THEN Return(d, "aborted") ELSE [d EXCEPT !.pc = "set_target"]
      : resp \in AckResponses }

is_admin_class_any(bot_role) == TRUE

\* line 430
is_admin_class(bot_role) == bot_role \in {"admin", "owner"}

\* bot.nickname and bot.alias_names of the global config (lines 432-433)
BotNicknames == {"", "Mai"}
BotAliases == {<<>>, <<"Alias">>}

\* lines 436-442
card_candidates(bot_nickname, bot_aliases, bot_card) ==
    (IF bot_nickname # "" THEN <<bot_nickname>> ELSE <<>>)
        \o bot_aliases
        \o (IF bot_card # "" THEN <<bot_card>> ELSE <<>>)

\* lines 430-456
SetTargetStep(c) ==
    IF ~is_admin_class(c.bot_role) THEN {Return(c, "not_admin")}
    ELSE UNION {
        LET candidates == card_candidates(nick, aliases, c.bot_card)
        IN  IF candidates = <<>> THEN {Return(c, "no_card_candidates")}
            ELSE { LET r == set_group_card(resp)
                       d == [c EXCEPT !.log = Append(@,
                                 Call("set_target", "set_group_card",
                                      call_user("set_target", c.target_user_id),
                                      candidates[i], resp, r))]
                   IN  IF r.raised THEN Return(d, "aborted") ELSE Return(d, "completed")
                   : i \in 1..Len(candidates), resp \in AckResponses }
        : nick \in BotNicknames, aliases \in BotAliases }

\* the cycles one step after c
CycleStep(c) ==
    CASE c.pc = "get_stream" -> GetStreamStep(c)
      [] c.pc = "rank" -> RankStep(c)
      [] c.pc = "select" -> SelectStep(c)
      [] c.pc = "poke" -> PokeStep(c)
      [] c.pc = "fetch_target" -> FetchTargetStep(c)
      [] c.pc = "fetch_bot" -> FetchBotStep(c)
      [] c.pc = "set_bot" -> SetBotStep(c)
      [] c.pc = "set_target" -> SetTargetStep(c)
      [] OTHER -> {}

\* A finished cycle in short: it raised (escaped), it returned before the
\* card steps (returned_early: lines 356, 387, 406, 415), the except of line
\* 458 ended it (aborted), or it went through the card steps (completed)
Summary(c) ==
    CASE c.ended = "escaped" -> "escaped"
      [] c.ended \in {"no_candidates", "no_target", "fetch_target_failed",
                      "fetch_bot_failed"} -> "returned_early"
      [] c.ended = "aborted" -> "aborted"
      [] OTHER -> "completed"

RECURSIVE OutcomesFrom(_)
OutcomesFrom(c) ==
    IF c.pc \in {"returned", "raised"} THEN {Summary(c)}
    ELSE UNION {OutcomesFrom(d) : d \in CycleStep(c)}

\* every way a cycle can end
CycleOutcomes == OutcomesFrom(StartCycle)

----------------------------------------------------------------------------
(* ScheduleStore: _load_schedule and _save_schedule (lines 229-255) *)

\* the groups _initialize_tasks creates a task for (lines 219-223)
Groups == {"g1", "g2"}

\* line 300
PollSeconds == 60
\* line 308
BackoffSeconds == 300
\* line 290
SecondsPerMinute == 60

\* A value of the schedule mapping: no entry for the key, a number, or JSON
\* that is no number (a string, null)
NoEntry == [type |-> "absent", v |-> 0]
Number(t) == [type |-> "number", v |-> t]
OtherValue == [type |-> "other", v |-> 0]

\* {}
EmptySchedule == [g \in Groups |-> NoEntry]

\* schedule.json: absent, not JSON (empty, truncated, garbage), JSON that is
\* no object, or a JSON object
File(kind, data) == [kind |-> kind, data |-> data]
NoFile == File("absent", EmptySchedule)
NotJson == File("not_json", EmptySchedule)

\* _load_schedule (lines 235-243): what json.load returns, or {} when the
\* file is missing or reading it raises; read_ok is whether open and read
\* go through
load_schedule(f, read_ok) ==
    IF f.kind = "absent" THEN [is_dict |-> TRUE, data |-> EmptySchedule]
    ELSE IF ~read_ok \/ f.kind = "not_json" THEN [is_dict |-> TRUE, data |-> EmptySchedule]
    ELSE IF f.kind = "json_other" THEN [is_dict |-> FALSE, data |-> EmptySchedule]
    ELSE [is_dict |-> TRUE, data |-> f.data]

\* how a save goes: it writes the document; open() raises and the file is
\* as before; or open() has truncated the file and json.dump or the close
\* raises, which leaves an empty or partial document
SaveResults == {"ok", "open_failed", "write_failed"}

\* _save_schedule (lines 251-255)
save_schedule(f, data, how) ==
    CASE how = "ok" -> File("json_object", data)
      [] how = "open_failed" -> f
      [] how = "write_failed" -> NotJson

----------------------------------------------------------------------------
(* IntervalPolicy (lines 287-291) *)

\* schedule.min_interval and schedule.max_interval, in minutes; the
\* defaults are 360 and 480, and nothing validates them
Configs ==
    { [min_interval |-> x[1], max_interval |-> x[2]]
      : x \in {<<2, 3>>, <<2, 1>>} }

\* random.uniform(a, b) is a + (b - a) * random(): a value between the two,
\* whichever is larger; the whole minutes of that range
uniform(a, b) == IF a <= b THEN a..b ELSE b..a

\* line 290
interval_seconds(interval_minutes) == interval_minutes * SecondsPerMinute

\* line 291
compute_next_run(t, interval) == t + interval

----------------------------------------------------------------------------
(* GroupScheduler: DuoshePlugin._schedule_task (lines 257-308) *)

\* pc of a task:
\*   created       asyncio.create_task made it (line 222), it has not run
\*   due           line 284: the due-check passed, _execute_duoshe is running
\*   ran           line 287: _execute_duoshe returned
\*   saved         line 297: _save_schedule returned
\*   poll_wait     line 300: suspended in asyncio.sleep(60)
\*   backoff_wait  line 308: suspended in asyncio.sleep(300)
\*   stopped       line 304: CancelledError caught, the loop left by break
\*   cancelled     CancelledError raised by the sleep of line 308, which is
\*                 in an except clause: it leaves the coroutine
\*   failed        an exception left the coroutine (lines 265-269)
Waiting == {"poll_wait", "backoff_wait"}
Running == {"due", "ran", "saved"}
Terminated == {"stopped", "cancelled", "failed"}

\* One event loop runs the tasks: a task runs from one await that suspends
\* to the next, and no other task runs meanwhile.  _execute_duoshe awaits
\* nothing (urlopen blocks), so only the two sleeps suspend.
Idle == \A g \in Groups : pc[g] \notin Running

\* no cycle of the group has started yet, or the run does not record it
NoStart == <<>>

\* the documents schedule.json may hold when the plugin starts
InitFiles ==
    { NoFile,
      File("json_other", EmptySchedule),
      File("json_object", [EmptySchedule EXCEPT !["g1"] = OtherValue,
                                                !["g2"] = Number(PollSeconds)]) }

Init ==
    /\ now = 0
    /\ file \in InitFiles
    /\ pc = [g \in Groups |-> "created"]
    /\ wake = [g \in Groups |-> 0]
    /\ current_time = [g \in Groups |-> 0]
    /\ schedule_data = [g \in Groups |-> EmptySchedule]
    /\ next_run = [g \in Groups |-> 0]
    /\ outcome = [g \in Groups |-> Absent]
    /\ save_result = [g \in Groups |-> Absent]
    /\ config \in Configs
    /\ last_start = [g \in {} |-> NoStart]
    /\ cur = NoCycle

\* the locals of an iteration are dead once the task sleeps
ClearLocals(g) ==
    /\ current_time' = [current_time EXCEPT ![g] = 0]
    /\ schedule_data' = [schedule_data EXCEPT ![g] = EmptySchedule]
    /\ next_run' = [next_run EXCEPT ![g] = 0]
    /\ outcome' = [outcome EXCEPT ![g] = Absent]
    /\ save_result' = [save_result EXCEPT ![g] = Absent]

Backoff_one_poll(g) ==
    /\ pc' = [pc EXCEPT ![g] = "backoff_wait"]
    /\ wake' = [wake EXCEPT ![g] = now + PollSeconds]
    /\ ClearLocals(g)
    /\ UNCHANGED last_start

\* lines 305-308: except Exception, then asyncio.sleep(300)
Backoff(g) ==
    /\ pc' = [pc EXCEPT ![g] = "backoff_wait"]
    /\ wake' = [wake EXCEPT ![g] = now + BackoffSeconds]
    /\ ClearLocals(g)
    /\ UNCHANGED last_start

\* line 300: asyncio.sleep(60)
PollWait(g) ==
    /\ pc' = [pc EXCEPT ![g] = "poll_wait"]
    /\ wake' = [wake EXCEPT ![g] = now + PollSeconds]
    /\ ClearLocals(g)
    /\ UNCHANGED last_start

is_due_strictly_after(t, nr) == t > nr

\* line 280
is_due(t, nr) == t >= nr

\* lines 274-280 and what follows the due-check: schedule_data.get raises
\* AttributeError when the document is no object, and the comparison raises
\* TypeError when the stored value is no number
LoopTop(g, read_ok) ==
    LET loaded == load_schedule(file, read_ok)
        entry == loaded.data[g]
        nr == IF entry.type = "absent" THEN now ELSE entry.v
    IN  IF ~loaded.is_dict \/ entry.type = "other" THEN Backoff(g)
        ELSE IF is_due(now, nr)
             THEN /\ pc' = [pc EXCEPT ![g] = "due"]
                  /\ current_time' = [current_time EXCEPT ![g] = now]
                  /\ schedule_data' = [schedule_data EXCEPT ![g] = loaded.data]
                  /\ last_start' = IF g \in DOMAIN last_start
                                    THEN [last_start EXCEPT ![g] = <<now>>]
                                    ELSE last_start
                  /\ UNCHANGED <<wake, next_run, outcome, save_result>>
             ELSE PollWait(g)

\* lines 265-280: the task's first run; chat_api.get_stream_by_group_id
\* (line 265) is outside every try
TaskStart(g) ==
    /\ pc[g] = "created"
    /\ Idle
    /\ \E raises \in BOOLEAN, read_ok \in BOOLEAN :
          IF raises
          THEN /\ pc' = [pc EXCEPT ![g] = "failed"]
               /\ UNCHANGED <<wake, current_time, schedule_data, next_run,
                              outcome, save_result, last_start>>
          ELSE LoopTop(g, read_ok)
    /\ UNCHANGED <<now, file, config, cur>>

\* a sleep elapsed and the loop is free: the next iteration (lines 271-280)
Wake(g) ==
    /\ pc[g] \in Waiting
    /\ now >= wake[g]
    /\ Idle
    /\ \E read_ok \in BOOLEAN : LoopTop(g, read_ok)
    /\ UNCHANGED <<now, file, config, cur>>

cycle_raised_or_returned_early(o) == o \in {"escaped", "returned_early"}

\* lines 284 and 305: the cycle left _execute_duoshe by an exception; a
\* return, early or not, goes on to line 287
cycle_raised(o) == o = "escaped"

\* line 284: await self._execute_duoshe(group_id, chat_id); an exception
\* that leaves it goes to the except of line 305
RunCycle(g) ==
    /\ pc[g] = "due"
    /\ \E o \in CycleOutcomes :
          IF cycle_raised(o)
          THEN Backoff(g)
          ELSE /\ pc' = [pc EXCEPT ![g] = "ran"]
               /\ outcome' = [outcome EXCEPT ![g] = o]
               /\ UNCHANGED <<wake, current_time, schedule_data, next_run,
                              save_result, last_start>>
    /\ UNCHANGED <<now, file, config, cur>>

\* line 294: schedule_data[group_id] = next_run
schedule_with(data, g, nr) == [data EXCEPT ![g] = Number(nr)]

\* lines 287-297
SaveSchedule(g) ==
    /\ pc[g] = "ran"
    /\ \E interval_minutes \in uniform(config.min_interval, config.max_interval),
          how \in SaveResults :
          LET nr == compute_next_run(current_time[g], interval_seconds(interval_minutes))
              data == schedule_with(schedule_data[g], g, nr)
          IN  /\ next_run' = [next_run EXCEPT ![g] = nr]
              /\ file' = save_schedule(file, data, how)
              /\ save_result' = [save_result EXCEPT ![g] = how]
    /\ pc' = [pc EXCEPT ![g] = "saved"]
    /\ schedule_data' = [schedule_data EXCEPT ![g] = EmptySchedule]
    /\ outcome' = [outcome EXCEPT ![g] = Absent]
    /\ UNCHANGED <<now, wake, current_time, config, last_start, cur>>

\* line 300
Sleep(g) ==
    /\ pc[g] = "saved"
    /\ PollWait(g)
    /\ UNCHANGED <<now, file, config, cur>>

on_cancelled_keeps_looping(at) == "poll_wait"

\* lines 300-304 and 308: CancelledError raised in the try is caught and
\* breaks the loop; raised in the except clause it leaves the coroutine
on_cancelled(at) == IF at = "poll_wait" THEN "stopped" ELSE "cancelled"

\* Task.cancel() on the suspended task of g, by code that runs on the event
\* loop: CancelledError is thrown into the task at its sleep
Cancel(g) ==
    /\ pc[g] \in Waiting
    /\ Idle
    /\ pc' = [pc EXCEPT ![g] = on_cancelled(pc[g])]
    /\ UNCHANGED <<now, file, wake, current_time, schedule_data,
                   next_run, outcome, save_result, config, last_start, cur>>

\* Time passes, also while _execute_duoshe runs: its remote calls block.
\* They are at most five with a timeout of 10 seconds each (line 46), so a
\* cycle takes less than two poll intervals.
Tick ==
    /\ now < MaxTicks * PollSeconds
    /\ \A g \in Groups :
          pc[g] \in Running => pc[g] = "due" /\ now < current_time[g] + PollSeconds
    /\ now' = now + PollSeconds
    /\ UNCHANGED <<file, pc, wake, current_time, schedule_data,
                   next_run, outcome, save_result, config, last_start, cur>>

Next ==
    \/ Tick
    \/ \E g \in Groups :
          \/ TaskStart(g)
          \/ Wake(g)
          \/ RunCycle(g)
          \/ SaveSchedule(g)
          \/ Sleep(g)
          \/ Cancel(g)

Spec == Init /\ [][Next]_vars

----------------------------------------------------------------------------
(* One cycle, step by step *)

CycleInit ==
    /\ now = 0
    /\ file = NoFile
    /\ pc = [g \in Groups |-> IF g = "g1" THEN "due" ELSE "created"]
    /\ wake = [g \in Groups |-> 0]
    /\ current_time = [g \in Groups |-> 0]
    /\ schedule_data = [g \in Groups |-> EmptySchedule]
    /\ next_run = [g \in Groups |-> 0]
    /\ outcome = [g \in Groups |-> Absent]
    /\ save_result = [g \in Groups |-> Absent]
    /\ config \in {c \in Configs : c.min_interval = 2 /\ c.max_interval = 3}
    /\ last_start = [g \in {} |-> NoStart]
    /\ cur = StartCycle

GetStream == cur.pc = "get_stream" /\ cur' \in GetStreamStep(cur) /\ UNCHANGED schedVars
Rank == cur.pc = "rank" /\ cur' \in RankStep(cur) /\ UNCHANGED schedVars
Select == cur.pc = "select" /\ cur' \in SelectStep(cur) /\ UNCHANGED schedVars
Poke == cur.pc = "poke" /\ cur' \in PokeStep(cur) /\ UNCHANGED schedVars
FetchTarget == cur.pc = "fetch_target" /\ cur' \in FetchTargetStep(cur) /\ UNCHANGED schedVars
FetchBot == cur.pc = "fetch_bot" /\ cur' \in FetchBotStep(cur) /\ UNCHANGED schedVars
SetBot == cur.pc = "set_bot" /\ cur' \in SetBotStep(cur) /\ UNCHANGED schedVars
SetTarget == cur.pc = "set_target" /\ cur' \in SetTargetStep(cur) /\ UNCHANGED schedVars

CycleNext ==
    \/ GetStream
    \/ Rank
    \/ Select
    \/ Poke
    \/ FetchTarget
    \/ FetchBot
    \/ SetBot
    \/ SetTarget

CycleSpec == CycleInit /\ [][CycleNext]_vars

----------------------------------------------------------------------------
(* Claims about one execution cycle, checked under CycleSpec *)

Log == cur.log
Calls == 1..Len(cur.log)
CycleOver == cur.pc \in {"returned", "raised"}

\* the response carried member data: a JSON object whose data is not null
ResponseHasData(resp) == resp.kind = "json_object" /\ resp.data.type # "null"

\* a call that did not succeed: it raised or it returned (False, message)
CallFailed(e) == e.raised \/ ~e.success

\* C2: a set_group_card call (on the bot or on the target) is issued only
\* after the get_group_member_info call for the target and then the one for
\* the bot both succeeded, each on a response that carried data; a fetch
\* that failed, a null data included, is the last call of its cycle.
C2_NoCardChangeWithoutBothInfos ==
    /\ \A i \in Calls :
          Log[i].op = "set_group_card" =>
              \E j \in Calls, k \in Calls :
                  /\ j < k /\ k < i
                  /\ Log[j].site = "fetch_target" /\ Log[j].user = cur.target_user_id
                  /\ Log[k].site = "fetch_bot" /\ Log[k].user = bot_qq
                  /\ Log[j].success /\ ResponseHasData(Log[j].resp)
                  /\ Log[k].success /\ ResponseHasData(Log[k].resp)
    /\ \A i \in Calls :
          (Log[i].op = "get_group_member_info" /\ ~ResponseHasData(Log[i].resp)) =>
              /\ i = Len(Log)
              /\ CycleOver

\* the bot's fetch answered {"data": null} after the target's fetch had
\* succeeded, and the cycle is over
C2_Witness ==
    /\ cur.ended = "fetch_bot_failed"
    /\ Len(Log) = 3
    /\ Log[2].success
    /\ Log[3].resp.kind = "json_object" /\ Log[3].resp.data.type = "null"

\* the role the bot's member info carried, "member" when it carried none
FetchedBotRoles ==
    { DictGet(Log[i].resp.data.info, "role", "member")
      : i \in {k \in Calls : Log[k].site = "fetch_bot" /\ Log[k].success} }

SetTargetCalls ==
    {i \in Calls : Log[i].op = "set_group_card" /\ Log[i].user = cur.target_user_id}

\* C3: when the role fetched for the bot is not admin or owner (member, or
\* no role in the answer), the cycle issues no set_group_card call for the
\* target user.
C3_NoTargetCardChangeUnlessAdmin ==
    (\E r \in FetchedBotRoles : r \notin {"admin", "owner"}) => SetTargetCalls = {}

\* the answer for the bot carried no role, the poke and the bot's own card
\* change both failed, and the cycle ended without a call for the target
C3_Witness ==
    /\ cur.ended = "not_admin"
    /\ \E i \in Calls : Log[i].site = "fetch_bot" /\ Log[i].resp.data.info.role = Absent
    /\ \E i \in Calls : Log[i].site = "poke" /\ ~Log[i].success
    /\ \E i \in Calls : Log[i].site = "set_bot" /\ ~Log[i].success
    /\ SetTargetCalls = {}

\* C4: in a finished cycle whose two fetches succeeded, with an admin or
\* owner role and a card of the bot (so the name pool is not empty), a
\* failed set_group_card on the bot is followed by a set_group_card on the
\* target, whatever made the bot's call fail.
C4_TargetCardAttemptedAfterOwnCardFailure ==
    ( /\ CycleOver
      /\ is_admin_class(cur.bot_role)
      /\ cur.bot_card \notin {Absent, ""}
      /\ \E i \in Calls : Log[i].site = "set_bot" /\ CallFailed(Log[i]) )
        => \E i \in Calls : Log[i].site = "set_target"

\* C5: a cycle whose ranked list is empty (no message with a user in the
\* window, or the query raised) returns at line 356 with no remote call
\* issued.
C5_NoCandidatesNoCalls ==
    (cur.pc \notin {"idle", "get_stream", "rank", "raised"} /\ cur.active_users = <<>>)
        => /\ Log = <<>>
           /\ cur.pc = "returned"
           /\ cur.ended = "no_candidates"

\* the message query raised and the cycle returned
C5_Witness == cur.query_failed /\ cur.pc = "returned" /\ cur.active_users = <<>>

\* C6: the selected user is one of the ranked list, and the poke, the
\* target's fetch and the target's card change name exactly that user (the
\* bot's fetch and the bot's card change name the bot).
C6_TargetIsSelectedCandidate ==
    /\ cur.target_user_id # Absent =>
          \E i \in 1..Len(cur.active_users) : cur.active_users[i] = cur.target_user_id
    /\ Log # <<>> => cur.target_user_id # Absent
    /\ \A i \in Calls :
          IF Log[i].site \in {"poke", "fetch_target", "set_target"}
          THEN Log[i].user = cur.target_user_id
          ELSE Log[i].user = bot_qq

\* a negative lambda_param gave a negative index, the second of two
\* candidates was selected and all five calls were issued
C6_Witness ==
    /\ Len(cur.active_users) = 2
    /\ cur.index = <<-1>>
    /\ cur.target_user_id = cur.active_users[2]
    /\ Len(Log) = 5

\* C7: with exactly one candidate the selection is that candidate and no
\* function of `random` was called, whatever lambda_param is.
C7_SingleCandidateIsSelected ==
    (cur.pc \notin {"idle", "get_stream", "rank", "select", "raised"}
        /\ Len(cur.active_users) = 1)
        => /\ cur.target_user_id = cur.active_users[1]
           /\ cur.drew = <<>>
           /\ cur.index = <<>>

\* one candidate, selected, and the cycle ran to the target's card change
C7_Witness ==
    /\ Len(cur.active_users) = 1
    /\ cur.ended = "completed"
    /\ \E i \in Calls : Log[i].site = "set_target" /\ Log[i].user = cur.active_users[1]

----------------------------------------------------------------------------
(* Claims about the scheduling loop, checked under Spec *)

MinSeconds == config.min_interval * SecondsPerMinute
MaxSeconds == config.max_interval * SecondsPerMinute

\* the mapping a load that goes through reads from the file
Persisted(f) == load_schedule(f, TRUE).data

\* the task of g is at line 297 and its save wrote the document
SavedNow(g) == pc[g] = "saved" /\ save_result[g] = "ok"

NextRunInRange(g) ==
    /\ file.kind = "json_object"
    /\ file.data[g].type = "number"
    /\ file.data[g].v > current_time[g]
    /\ file.data[g].v - current_time[g] >= MinSeconds
    /\ file.data[g].v - current_time[g] <= MaxSeconds

\* C1: after every cycle that was saved, the persisted next_run of the group
\* is later than the time the cycle started, by at least min_interval and at
\* most max_interval minutes.
C1_NextRunInRange == \A g \in Groups : SavedNow(g) => NextRunInRange(g)

\* The range holds under a configuration with 0 < min_interval <=
\* max_interval: what breaks C1 is a configuration that lines 287-289 take
\* as it is.
NextRunInRangeForValidConfig ==
    (config.min_interval > 0 /\ config.min_interval <= config.max_interval)
        => \A g \in Groups : SavedNow(g) => NextRunInRange(g)

\* C8: a task that has ended was cancelled: nothing else ends it.
C8_OnlyCancellationEndsTask ==
    \A g \in Groups : pc[g] \in Terminated => pc[g] \in {"stopped", "cancelled"}

\* C9: a cancellation in the poll wait or in the backoff wait ends the task,
\* and an ended task stays ended: it starts no cycle, issues no call and
\* writes nothing.
C9_CancelledIsTerminal ==
    [][\A g \in Groups :
          /\ Cancel(g) => pc'[g] \in {"stopped", "cancelled"}
          /\ pc[g] \in {"stopped", "cancelled"} =>
                /\ pc'[g] = pc[g]
                /\ ~Wake(g) /\ ~TaskStart(g) /\ ~RunCycle(g) /\ ~SaveSchedule(g) /\ ~Sleep(g)
                /\ outcome'[g] = Absent /\ save_result'[g] = Absent
                /\ (file' # file => \E h \in Groups \ {g} : pc[h] = "ran")]_vars

\* one task was cancelled in its backoff wait, the other in its poll wait
C9_Witness ==
    \E g \in Groups, h \in Groups : pc[g] = "cancelled" /\ pc[h] = "stopped"

\* C10: the step in which the task of g saves (line 295) leaves what the
\* store holds for every other group as it was.
C10_SaveKeepsOtherEntries ==
    [][\A g \in Groups :
          (pc[g] = "ran" /\ pc'[g] = "saved") =>
              \A h \in Groups \ {g} : Persisted(file')[h] = Persisted(file)[h]]_vars

\* the poll wait or the backoff wait of h has elapsed: h is ready to run
SleepElapsed(h) == pc[h] \in Waiting /\ now >= wake[h]

\* C11: while the task of g is inside a cycle (its remote calls pending),
\* every other task whose wait has elapsed can make its due-check.
C11_CycleDoesNotBlockOthers ==
    \A g \in Groups, h \in Groups :
        (g # h /\ pc[g] = "due" /\ SleepElapsed(h)) => ENABLED Wake(h)

\* a step in which the task of g makes a due-check (lines 274-280)
DueCheck(g) == (TaskStart(g) \/ Wake(g)) /\ pc'[g] # "failed"

\* the file holds no schedule for g: it is absent, not JSON, JSON that is no
\* object, or an object whose value for g is no number
NoScheduleFor(f, g) ==
    \/ f.kind \in {"absent", "not_json", "json_other"}
    \/ f.kind = "json_object" /\ f.data[g].type = "other"

\* C12: whatever the schedule file holds in place of a schedule, a due-check
\* of g takes the schedule as empty and starts a cycle; it never ends in the
\* handler of line 305.
C12_CorruptStoreLoadsAsEmpty ==
    [][\A g \in Groups :
          (DueCheck(g) /\ NoScheduleFor(file, g)) => pc'[g] = "due"]_vars

\* the store holds a next_run for g
HasStoredEntry(f, g) == f.kind = "json_object" /\ f.data[g].type = "number"

\* the store holds nothing for g: no file, or an object without the key
HasNoEntry(f, g) ==
    \/ f.kind = "absent"
    \/ f.kind = "json_object" /\ f.data[g].type = "absent"

\* a due-check of g without an entry starts a cycle, and so does one at or
\* after the stored next_run
DueWhenReached(g) ==
    /\ (DueCheck(g) /\ HasNoEntry(file, g)) => pc'[g] = "due"
    /\ (DueCheck(g) /\ HasStoredEntry(file, g) /\ now >= file.data[g].v) => pc'[g] = "due"

----------------------------------------------------------------------------
(* More claims about one execution cycle, checked under CycleSpec *)

\* the failures of a remote call: network error, a body that is not JSON, a
\* failure status in the body, an empty data payload
IsFailureResponse(resp) ==
    \/ resp.kind \in {"network_error", "non_json"}
    \/ resp.kind = "json_object" /\ resp.status = "failed"
    \/ resp.kind = "json_object" /\ resp.data.type = "null"

\* C14: each of the three operations reports each of these failures as
\* (False, ...).
C14_SameFailureTaxonomy ==
    \A i \in Calls : IsFailureResponse(Log[i].resp) => ~Log[i].success

\* the sequence of section 4.5: where each call is made and what it calls
CallOrder == <<"poke", "fetch_target", "fetch_bot", "set_bot", "set_target">>
CallOps ==
    <<"group_poke", "get_group_member_info", "get_group_member_info",
      "set_group_card", "set_group_card">>

\* C15: the calls issued so far are the first calls of the fixed sequence
\* poke, fetch target, fetch bot, set bot's card, set target's card, in this
\* order and each once.
C15_CallsArePrefixOfSequence ==
    /\ Len(Log) <= Len(CallOrder)
    /\ \A i \in Calls : Log[i].site = CallOrder[i] /\ Log[i].op = CallOps[i]

\* an admin bot without nickname, alias and card: the first four calls were
\* issued and the last step was skipped
C15_Witness ==
    /\ cur.ended = "no_card_candidates"
    /\ Len(Log) = 4
    /\ Log[4].site = "set_bot"

\* C16: once the poke is issued and the cycle has moved on, the second call
\* is the fetch of the target's member info, whether the poke succeeded or
\* failed; the poke itself never ends the cycle.
C16_FetchFollowsPoke ==
    (Log # <<>> /\ cur.pc # "fetch_target")
        => /\ Log[1].site = "poke"
           /\ Len(Log) >= 2
           /\ Log[2].site = "fetch_target"
           /\ Log[2].user = Log[1].user

\* the poke failed on a network error and the target's fetch was issued and
\* succeeded
C16_Witness ==
    /\ Len(Log) >= 2
    /\ Log[1].site = "poke" /\ ~Log[1].success
    /\ Log[1].resp.kind = "network_error"
    /\ Log[2].site = "fetch_target" /\ Log[2].success

----------------------------------------------------------------------------
(* More claims about the scheduling loop, checked under Spec *)

\* the next_run values the interval policy can give a cycle started at t
PolicyNextRuns(t) ==
    { t + m * SecondsPerMinute : m \in uniform(config.min_interval, config.max_interval) }

\* the cycle of g returned early (lines 356, 387, 406, 415) and line 287 is next
EndedEarly(g) == pc[g] = "ran" /\ outcome[g] = "returned_early"

C18_EscapedErrorBacksOff ==
    [][\A g \in Groups :
          /\ (RunCycle(g) /\ pc'[g] # "ran") =>
                /\ pc'[g] = "backoff_wait"
                /\ wake'[g] = now + BackoffSeconds
                /\ file' = file
          /\ (pc[g] = "backoff_wait" /\ (pc'[g] # pc[g] \/ wake'[g] # wake[g])) =>
                \/ Cancel(g)
                \/ DueCheck(g) /\ now >= wake[g]]_vars

\* no schedule file exists, so no load has failed: the task of g is in the
\* backoff an escaped exception put it in, and the 300 seconds are over
C18_Witness ==
    \E g \in Groups :
        /\ file = NoFile
        /\ pc[g] = "backoff_wait"
        /\ wake[g] = BackoffSeconds
        /\ now >= wake[g]

\* C19: the step in which the task of g saves leaves in the store either
\* the complete new mapping or, when the save failed, the mapping that was
\* there before: what a load reads after a failed save is what it read
\* before it.
C19_SaveIsAllOrNothing ==
    [][\A g \in Groups :
          SaveSchedule(g) =>
              \/ /\ file'.kind = "json_object"
                 /\ file'.data = schedule_with(schedule_data[g], g, next_run'[g])
              \/ /\ save_result'[g] # "ok"
                 /\ Persisted(file') = Persisted(file)]_vars

----------------------------------------------------------------------------
(* The scheduling loop with the start of each group's latest cycle
   recorded, under a configuration that passes validation *)

GapInit ==
    /\ now = 0
    /\ file \in InitFiles
    /\ pc = [g \in Groups |-> "created"]
    /\ wake = [g \in Groups |-> 0]
    /\ current_time = [g \in Groups |-> 0]
    /\ schedule_data = [g \in Groups |-> EmptySchedule]
    /\ next_run = [g \in Groups |-> 0]
    /\ outcome = [g \in Groups |-> Absent]
    /\ save_result = [g \in Groups |-> Absent]
    /\ config \in {c \in Configs : 0 < c.min_interval /\ c.min_interval <= c.max_interval}
    /\ last_start = [g \in Groups |-> NoStart]
    /\ cur = NoCycle

GapSpec == GapInit /\ [][Next]_vars

\* C20: when a cycle of g starts and an earlier cycle of g started at s,
\* the time is at least s + min_interval minutes.
C20_CyclesAtLeastMinIntervalApart ==
    [][\A g \in Groups :
          (DueCheck(g) /\ pc'[g] = "due" /\ last_start[g] # NoStart)
              => now >= last_start[g][1] + MinSeconds]_vars

============================================================================
